---------------------------- MODULE Spec2Model ----------------------------
(***************************************************************************)
(* Platform Analyzer frontend: the result classification helpers, the      *)
(* LegitimacyAnalyzer and JobAnalyzer components (analysis run, sign-in    *)
(* overlay, rendered result) and the CommentsSection form.                 *)
(***************************************************************************)
EXTENDS Integers, Sequences, FiniteSets, TLC

VARIABLES
    p_score,        \* classification input: a score
    p_score2,       \* classification input: a second score
    p_scam,         \* classification input: scamProbability
    p_out,          \* classification output, NoOut until computed
    activeService,  \* App: the mounted analyzer, "website" or "job"
    a_user,         \* App: user
    ls_token,       \* localStorage: auth_token, Null when absent
    ls_user,        \* localStorage: user, Null when absent
    w_url,          \* LegitimacyAnalyzer: url
    w_analyzing,    \* LegitimacyAnalyzer: analyzing
    w_result,       \* LegitimacyAnalyzer: result, NoResult for null
    w_steps,        \* LegitimacyAnalyzer: analysisSteps (step numbers)
    w_error,        \* LegitimacyAnalyzer: error, Null when none
    w_showAuthModal,
    w_user,         \* LegitimacyAnalyzer: user
    w_hasScrolled,  \* LegitimacyAnalyzer: hasScrolledToResults
    w_runs,         \* LegitimacyAnalyzer: the calls of analyzeWebsite still running
    j_formData,     \* JobAnalyzer: formData (job_url, job_description)
    j_analyzing,    \* JobAnalyzer: analyzing
    j_result,       \* JobAnalyzer: result, NoResult for null
    j_steps,        \* JobAnalyzer: analysisSteps (step numbers)
    j_error,        \* JobAnalyzer: error, Null when none
    j_showAuthModal,
    j_user,         \* JobAnalyzer: user
    j_hasScrolled,  \* JobAnalyzer: hasScrolledToResults
    j_runs,         \* JobAnalyzer: the calls of analyzeJob still running
    c_comments,     \* CommentsSection: comments
    c_stats,        \* CommentsSection: stats
    c_showForm,     \* CommentsSection: showForm
    c_formData,     \* CommentsSection: formData
    c_submitting,   \* CommentsSection: submitting
    c_post,         \* CommentsSection: body of the POST /api/comments in flight
    c_loads,        \* CommentsSection: loadComments calls awaiting the response
    c_marks,        \* CommentsSection: per comment id, the POST .../helpful in flight
    m_isSignUp,     \* AuthModal: isSignUp
    m_formData,     \* AuthModal: formData (name, email, password)
    m_loading,      \* AuthModal: loading
    m_error,        \* AuthModal: error, "" when none
    m_req,          \* AuthModal: the POST /auth/... in flight, NoRequest when none
    a_authChecked,  \* App: authChecked
    a_check,        \* App: the GET /auth/user of the mount effect and how it settled
    w_checks,       \* LegitimacyAnalyzer: its GET /auth/user requests in flight
    w_orphans,      \* GET /auth/user requests in flight of unmounted LegitimacyAnalyzers
    c_stale         \* CommentsSection: per url, the loadComments calls for it awaiting
                    \* the response while the url prop has another value

pvars == <<p_score, p_score2, p_scam, p_out>>
avars == <<activeService, a_user, ls_token, ls_user>>
wvars == <<w_url, w_analyzing, w_result, w_steps, w_error, w_showAuthModal,
           w_user, w_hasScrolled, w_runs>>

jvars == <<j_formData, j_analyzing, j_result, j_steps, j_error, j_showAuthModal,
           j_user, j_hasScrolled, j_runs>>

cvars == <<c_comments, c_stats, c_showForm, c_formData, c_submitting,
          c_post, c_loads, c_marks>>

mvars == <<m_isSignUp, m_formData, m_loading, m_error, m_req>>

hvars == <<a_authChecked, a_check, w_checks, w_orphans>>

svars == <<c_stale>>

vars == <<pvars, avars, wvars, jvars, cvars, mvars, hvars, svars>>

-----------------------------------------------------------------------------
(* Values *)

Null == "null"
NoOut == [ web |-> "none", web2 |-> "none", job |-> "none", job2 |-> "none", threat |-> "none" ]

\* "out of 100": the scale the trust score is displayed on
MaxScore == 100

CRITICAL == "CRITICAL - 100%"
ScamValues == {CRITICAL, "Medium (38%)"}

\* Tailwind gradient classes returned by getScoreColor
ScoreGreen == "from-emerald-500 to-green-600"
ScoreYellow == "from-yellow-500 to-orange-500"
ScoreRed == "from-red-500 to-rose-600"

\* Tailwind classes returned by getVerdictColor
VerdictGreen == "bg-gradient-to-r from-green-400 to-emerald-500 text-white border-green-400"
VerdictYellow == "bg-gradient-to-r from-yellow-400 to-orange-400 text-white border-yellow-400"
VerdictRed == "bg-gradient-to-r from-red-500 to-rose-600 text-white border-red-400"

-----------------------------------------------------------------------------
(* Classification helpers *)

\* a plausible slip: strict comparisons at the thresholds
getScoreColor_strict(score) ==
    IF score > 70 THEN ScoreGreen
    ELSE IF score > 40 THEN ScoreYellow
    ELSE ScoreRed

\* LegitimacyAnalyzer.getScoreColor
getScoreColor(score) ==
    IF score >= 70 THEN ScoreGreen
    ELSE IF score >= 40 THEN ScoreYellow
    ELSE ScoreRed

\* JobAnalyzer.getScoreColor
Job_getScoreColor(score) ==
    IF score >= 70 THEN ScoreGreen
    ELSE IF score >= 40 THEN ScoreYellow
    ELSE ScoreRed

\* a plausible slip: the middle class as the fallback
getVerdictColor_fallback(verdict) ==
    IF verdict = "Legit" THEN VerdictGreen
    ELSE VerdictYellow

\* LegitimacyAnalyzer.getVerdictColor
getVerdictColor(verdict) ==
    IF verdict = "Legit" THEN VerdictGreen
    ELSE IF verdict = "Caution" THEN VerdictYellow
    ELSE VerdictRed

\* JobAnalyzer.getVerdictColor
Job_getVerdictColor(verdict) ==
    IF verdict = "Likely Legitimate" THEN VerdictGreen
    ELSE IF verdict = "Possibly Suspicious" THEN VerdictYellow
    ELSE VerdictRed

\* a plausible slip: the score thresholds tested before the critical marker
ThreatStatus_scoreFirst(scamProbability, trustScore) ==
    IF trustScore >= 70 THEN "Clean"
    ELSE IF trustScore >= 40 THEN "Caution"
    ELSE IF scamProbability = CRITICAL THEN "DANGER"
    ELSE "High Risk"

\* LegitimacyAnalyzer, the Threat Status card (the emoji prefixes are left out)
ThreatStatus(scamProbability, trustScore) ==
    IF scamProbability = CRITICAL THEN "DANGER"
    ELSE IF trustScore >= 70 THEN "Clean"
    ELSE IF trustScore >= 40 THEN "Caution"
    ELSE "High Risk"

-----------------------------------------------------------------------------
(* Values of the components *)

Users == {"alice"}
Urls == {"https://a.example"}
NoResult == [none |-> TRUE]
NoRequest == [none |-> TRUE]

\* the length of the steps array of analyzeWebsite and of analyzeJob
NumSteps == 8
\* calls of one analyzer still running (request, or step timers, pending)
MaxRuns == 1
\* step timers of earlier calls still pending when a new call starts
MaxStale == 0
\* calls of LegitimacyAnalyzer still running where it is followed on its own
MaxOverlap == 2
\* GET /auth/user requests of LegitimacyAnalyzers awaiting their response
MaxChecks == 1

NoCheck == [state |-> "none"]
Pending == [state |-> "pending"]
Failed == [state |-> "failed"]
NotOk == [state |-> "notok"]
Ok == [state |-> "ok"]

Details == { [findings |-> <<>>, redFlags |-> <<>>, aiAnalysis |-> ""],
             [findings |-> << [type |-> "critical", text |-> "finding"] >>,
              redFlags |-> << "flag" >>,
              aiAnalysis |-> "commentary"] }

\* what POST /api/analyze may answer with status 200: the frontend receives
\* the JSON as it is, so every combination is a possible input
WebScores == {0, 72, 101}
WebVerdicts == {"Legit", "Caution", "Scam"}
WebResults(url) ==
    { [ url |-> url, trustScore |-> s, verdict |-> v, scamProbability |-> c,
        findings |-> d.findings, redFlags |-> d.redFlags,
        aiAnalysis |-> d.aiAnalysis ] :
      s \in WebScores, v \in WebVerdicts, c \in ScamValues, d \in Details }

\* how the fetch of a run settles: rejected, or a response with status not
\* OK, or with status OK; the body is read later, by response.json()
Responses == {Failed, NotOk, Ok}

RemoveAt(seq, i) == SubSeq(seq, 1, i - 1) \o SubSeq(seq, i + 1, Len(seq))

RECURSIVE Unfired(_)
Unfired(runs) ==
    IF runs = <<>> THEN 0
    ELSE (NumSteps - Head(runs).fired) + Unfired(Tail(runs))

\* a run leaves the list once its async function has returned and all of its
\* step timers have fired
Settle(runs, i, run) ==
    IF run.done /\ run.fired = NumSteps
    THEN RemoveAt(runs, i)
    ELSE [runs EXCEPT ![i] = run]

-----------------------------------------------------------------------------
(* LegitimacyAnalyzer *)

\* the request analyzeWebsite sends, NoRequest when it returns early
W_AnalyzeRequest(user, url) ==
    IF url = "" THEN NoRequest ELSE [url |-> url]

\* a plausible change: the details are dropped for a viewer who is not signed in
W_StoredResult_gated(user, data) ==
    IF user = Null
    THEN [data EXCEPT !.findings = <<>>, !.redFlags = <<>>, !.aiAnalysis = ""]
    ELSE data

\* what analyzeWebsite keeps of the response: setResult(data)
W_StoredResult(user, data) == data

\* a plausible slip: the trust score card put inside the part that asks for
\* a signed-in viewer
W_View_cardForUsers(user, result) ==
    IF result = NoResult \/ user = Null
    THEN [ open |-> {}, detail |-> {}, overlay |-> FALSE, url |-> "",
           trustScore |-> -1, scoreColor |-> "", verdict |-> "",
           verdictColor |-> "", threatStatus |-> "", criticalBanner |-> FALSE ]
    ELSE [ open |-> {},
           detail |-> {"url", "trustScore", "verdict", "scamProbability",
                       "findings", "comments"},
           overlay |-> FALSE,
           url |-> result.url,
           trustScore |-> result.trustScore,
           scoreColor |-> getScoreColor(result.trustScore),
           verdict |-> result.verdict,
           verdictColor |-> getVerdictColor(result.verdict),
           threatStatus |-> ThreatStatus(result.scamProbability, result.trustScore),
           criticalBanner |-> (result.trustScore = 0) ]

\* what LegitimacyAnalyzer renders of result. open: the fields of result in
\* the trust-score-section; detail: the fields of result in the block after
\* it (redFlags is rendered nowhere); overlay: whether the sign-in overlay is
\* laid over the detail block, whose content is rendered all the same; then
\* the values shown
W_View(user, result) ==
    IF result = NoResult
    THEN [ open |-> {}, detail |-> {}, overlay |-> FALSE, url |-> "",
           trustScore |-> -1, scoreColor |-> "", verdict |-> "",
           verdictColor |-> "", threatStatus |-> "", criticalBanner |-> FALSE ]
    ELSE [ open |-> {"url", "trustScore", "verdict"},
           detail |->
               {"scamProbability", "findings", "comments"}
               \cup (IF result.aiAnalysis # "" THEN {"aiAnalysis"} ELSE {}),
           overlay |-> (user = Null),
           url |-> result.url,
           trustScore |-> result.trustScore,
           scoreColor |-> getScoreColor(result.trustScore),
           verdict |-> result.verdict,
           verdictColor |-> getVerdictColor(result.verdict),
           threatStatus |-> ThreatStatus(result.scamProbability, result.trustScore),
           criticalBanner |-> (result.trustScore = 0) ]

W_Mounted == activeService = "website"

W_Fresh(user) ==
    /\ w_url' = ""
    /\ w_analyzing' = FALSE
    /\ w_result' = NoResult
    /\ w_steps' = <<>>
    /\ w_error' = Null
    /\ w_showAuthModal' = FALSE
    /\ w_user' = user
    /\ w_hasScrolled' = FALSE
    /\ w_runs' = <<>>

W_SetUrl(u) ==
    /\ W_Mounted
    /\ u # w_url
    /\ w_url' = u
    /\ w_error' = Null
    /\ UNCHANGED <<w_analyzing, w_result, w_steps, w_showAuthModal, w_user,
                   w_hasScrolled, w_runs>>
    /\ UNCHANGED <<pvars, hvars, svars, cvars, mvars, avars, jvars>>

\* analyzeWebsite up to its first await, with fewer than cap calls running
analyzeWebsiteCapped(cap) ==
    IF W_AnalyzeRequest(w_user, w_url) = NoRequest
    THEN UNCHANGED vars
    ELSE /\ Len(w_runs) < cap
         /\ Unfired(w_runs) <= MaxStale
         /\ w_analyzing' = TRUE
         /\ w_steps' = <<>>
         /\ w_result' = NoResult
         /\ w_error' = Null
         /\ w_runs' = Append(w_runs, [ body |-> W_AnalyzeRequest(w_user, w_url),
                                       resp |-> Pending, fired |-> 0, done |-> FALSE,
                                       loggedOut |-> FALSE ])
         /\ UNCHANGED <<w_url, w_showAuthModal, w_user, w_hasScrolled>>
         /\ UNCHANGED <<pvars, hvars, svars, cvars, mvars, avars, jvars>>

analyzeWebsite == analyzeWebsiteCapped(MaxRuns)

\* the Analyze button: disabled={analyzing || !url}
W_ClickAnalyzeCapped(cap) ==
    /\ W_Mounted
    /\ ~(w_analyzing \/ w_url = "")
    /\ analyzeWebsiteCapped(cap)

W_ClickAnalyze == W_ClickAnalyzeCapped(MaxRuns)

\* onKeyPress of the URL input: e.key === 'Enter' && analyzeWebsite()
W_PressEnterCapped(cap) ==
    /\ W_Mounted
    /\ analyzeWebsiteCapped(cap)

W_PressEnter == W_PressEnterCapped(MaxRuns)

\* a step timer of run i fires: setAnalysisSteps(prev => [...prev, step])
W_StepTimer(i) ==
    /\ W_Mounted
    /\ i \in 1..Len(w_runs)
    /\ w_runs[i].fired < NumSteps
    /\ w_steps' = Append(w_steps, w_runs[i].fired + 1)
    /\ w_runs' = Settle(w_runs, i, [w_runs[i] EXCEPT !.fired = @ + 1])
    /\ UNCHANGED <<w_url, w_analyzing, w_result, w_error, w_showAuthModal,
                   w_user, w_hasScrolled>>
    /\ UNCHANGED <<pvars, hvars, svars, cvars, mvars, avars, jvars>>

\* the catch block of analyzeWebsite
W_Catch(message) ==
    /\ w_error' = message
    /\ w_analyzing' = FALSE
    /\ w_steps' = <<>>
    /\ UNCHANGED w_result

\* the fetch of run i settles; a rejected fetch goes to the catch block at
\* once, a response waits for Promise.all(stepPromises)
W_FetchSettles(i, resp) ==
    /\ W_Mounted
    /\ i \in 1..Len(w_runs)
    /\ w_runs[i].resp = Pending
    /\ resp \in Responses
    /\ IF resp = Failed
       THEN /\ W_Catch("Failed to fetch")
            /\ w_runs' = Settle(w_runs, i, [w_runs[i] EXCEPT !.resp = resp, !.done = TRUE])
       ELSE /\ w_runs' = [w_runs EXCEPT ![i].resp = resp]
            /\ UNCHANGED <<w_error, w_analyzing, w_steps, w_result>>
    /\ UNCHANGED <<w_url, w_showAuthModal, w_user, w_hasScrolled>>
    /\ UNCHANGED <<pvars, hvars, svars, cvars, mvars, avars, jvars>>

\* a plausible slip: the response handled without awaiting Promise.all
W_Finish_noJoin(i) ==
    /\ W_Mounted
    /\ i \in 1..Len(w_runs)
    /\ ~w_runs[i].done
    /\ w_runs[i].resp \in {Ok, NotOk}
    /\ IF w_runs[i].resp = NotOk
       THEN W_Catch("Could not analyze")
       ELSE /\ \E data \in WebResults(w_runs[i].body.url) :
                  w_result' = W_StoredResult(w_user, data)
            /\ w_analyzing' = FALSE
            /\ UNCHANGED <<w_error, w_steps>>
    /\ w_runs' = RemoveAt(w_runs, i)
    /\ UNCHANGED <<w_url, w_showAuthModal, w_user, w_hasScrolled>>
    /\ UNCHANGED <<pvars, hvars, svars, cvars, mvars, avars, jvars>>

\* run i after await Promise.all(stepPromises): the response is there and
\* all step timers have fired. A response that is not OK is thrown into the
\* catch block; of an OK response the body, as response.json() yields it, is
\* stored
\* rendered is what the CommentsSection under the result does in the step
W_FinishAnd(i, rendered) ==
    /\ W_Mounted
    /\ i \in 1..Len(w_runs)
    /\ ~w_runs[i].done
    /\ w_runs[i].resp \in {Ok, NotOk}
    /\ w_runs[i].fired = NumSteps
    /\ IF w_runs[i].resp = NotOk
       THEN W_Catch("Could not analyze")
       ELSE /\ \E data \in WebResults(w_runs[i].body.url) :
                  w_result' = W_StoredResult(w_user, data)
            /\ w_analyzing' = FALSE
            /\ UNCHANGED <<w_error, w_steps>>
    /\ w_runs' = RemoveAt(w_runs, i)
    /\ rendered
    /\ UNCHANGED <<w_url, w_showAuthModal, w_user, w_hasScrolled>>
    /\ UNCHANGED <<pvars, hvars, mvars, avars, jvars>>

\* where LegitimacyAnalyzer is followed without its CommentsSection
W_Finish(i) == W_FinishAnd(i, UNCHANGED <<cvars, svars>>)

\* the X button of the error panel
W_DismissError ==
    /\ W_Mounted
    /\ w_error # Null
    /\ w_error' = Null
    /\ UNCHANGED <<w_url, w_analyzing, w_result, w_steps, w_showAuthModal,
                   w_user, w_hasScrolled, w_runs>>
    /\ UNCHANGED <<pvars, hvars, svars, cvars, mvars, avars, jvars>>

\* the "Sign In / Sign Up" button of the overlay
W_OverlaySignIn ==
    /\ W_Mounted
    /\ W_View(w_user, w_result).overlay
    /\ w_showAuthModal' = TRUE
    /\ UNCHANGED <<w_url, w_analyzing, w_result, w_steps, w_error, w_user,
                   w_hasScrolled, w_runs>>
    /\ UNCHANGED <<pvars, hvars, svars, cvars, mvars, avars, jvars>>

\* handleScroll, past the trust score section; the listener is attached only
\* while result && !user && !hasScrolledToResults
W_ScrollPastResults ==
    /\ W_Mounted
    /\ ~(w_result = NoResult \/ w_user # Null \/ w_hasScrolled)
    /\ w_showAuthModal' = TRUE
    /\ w_hasScrolled' = TRUE
    /\ UNCHANGED <<w_url, w_analyzing, w_result, w_steps, w_error, w_user, w_runs>>
    /\ UNCHANGED <<pvars, hvars, svars, cvars, mvars, avars, jvars>>

\* onClose of the AuthModal
W_CloseAuthModal ==
    /\ W_Mounted
    /\ w_showAuthModal
    /\ w_showAuthModal' = FALSE
    /\ UNCHANGED <<w_url, w_analyzing, w_result, w_steps, w_error, w_user,
                   w_hasScrolled, w_runs>>
    /\ UNCHANGED <<pvars, hvars, svars, cvars, mvars, avars, jvars>>

\* the AuthModal got a token: it stores token and user, then
\* LegitimacyAnalyzer.handleAuthSuccess and App.handleAuthSuccess run
W_AuthSuccess(u) ==
    /\ W_Mounted
    /\ w_showAuthModal
    /\ u \in Users
    /\ ls_token' = "token"
    /\ ls_user' = u
    /\ w_user' = u
    /\ w_showAuthModal' = FALSE
    /\ a_user' = u
    /\ UNCHANGED <<w_url, w_analyzing, w_result, w_steps, w_error,
                   w_hasScrolled, w_runs>>
    /\ UNCHANGED <<pvars, hvars, svars, cvars, mvars, activeService, jvars>>

\* LegitimacyAnalyzer.handleLogout, with onLogout = App.handleLogout. It
\* leaves the calls of analyzeWebsite that are running alone; loggedOut is
\* not a value of the program, it records of a running call that
\* handleLogout has run since the call started
W_handleLogout ==
    /\ W_Mounted
    /\ w_user # Null
    /\ ls_token' = Null
    /\ ls_user' = Null
    /\ w_user' = Null
    /\ w_result' = NoResult
    /\ a_user' = Null
    /\ w_runs' = [i \in 1..Len(w_runs) |-> [w_runs[i] EXCEPT !.loggedOut = TRUE]]
    /\ UNCHANGED <<w_url, w_analyzing, w_steps, w_error, w_showAuthModal,
                   w_hasScrolled>>
    /\ UNCHANGED <<pvars, hvars, svars, cvars, mvars, activeService, jvars>>

-----------------------------------------------------------------------------
(* JobAnalyzer *)

JobTexts == {"https://jobs.example/1"}
JobDescriptions == {"Work from home"}

JobDetails == { [findings |-> <<>>, redFlags |-> <<>>, aiAnalysis |-> ""],
                [findings |-> << [type |-> "critical", text |-> "finding"] >>,
                 redFlags |-> << [type |-> "critical", category |-> "payment",
                                  text |-> "flag"] >>,
                 aiAnalysis |-> "commentary"] }

\* what POST /api/analyze-job may answer with status 200
JobScores == {0, 72, 101}
JobVerdicts == {"Likely Legitimate", "Possibly Suspicious", "Likely Scam"}
JobResults(body) ==
    { [ jobUrl |-> body.job_url, trustScore |-> s, verdict |-> v,
        riskLevel |-> "Medium", criticalFlags |-> c,
        findings |-> d.findings, redFlags |-> d.redFlags,
        aiAnalysis |-> d.aiAnalysis ] :
      s \in JobScores, v \in JobVerdicts, c \in {0, 1}, d \in JobDetails }

\* the request analyzeJob sends, NoRequest when it rejects the form
J_AnalyzeRequest(user, formData) ==
    IF formData.job_url = "" /\ formData.job_description = ""
    THEN NoRequest
    ELSE formData

\* what analyzeJob keeps of the response: setResult(data)
J_StoredResult(user, data) == data

\* what JobAnalyzer renders of result. open: the fields of result in the
\* job-trust-score-section (platformAnalysis.jobUrl is rendered nowhere);
\* detail: the fields of result in the block after it; overlay: whether the
\* sign-in overlay is laid over the detail block, whose content is rendered
\* all the same; then the values shown
J_View(user, result) ==
    IF result = NoResult
    THEN [ open |-> {}, detail |-> {}, overlay |-> FALSE, trustScore |-> -1,
           scoreColor |-> "", verdict |-> "", verdictColor |-> "",
           criticalBanner |-> FALSE ]
    ELSE [ open |-> {"trustScore", "verdict", "riskLevel"},
           detail |->
               {"criticalFlags", "findings"}
               \cup (IF Len(result.redFlags) > 0 THEN {"redFlags"} ELSE {})
               \cup (IF result.aiAnalysis # "" THEN {"aiAnalysis"} ELSE {}),
           overlay |-> (user = Null),
           trustScore |-> result.trustScore,
           scoreColor |-> Job_getScoreColor(result.trustScore),
           verdict |-> result.verdict,
           verdictColor |-> Job_getVerdictColor(result.verdict),
           criticalBanner |-> (result.criticalFlags > 0) ]

J_Mounted == activeService = "job"

J_Fresh(user) ==
    /\ j_formData' = [job_url |-> "", job_description |-> ""]
    /\ j_analyzing' = FALSE
    /\ j_result' = NoResult
    /\ j_steps' = <<>>
    /\ j_error' = Null
    /\ j_showAuthModal' = FALSE
    /\ j_user' = user
    /\ j_hasScrolled' = FALSE
    /\ j_runs' = <<>>

\* onChange of the Job Posting URL input and of the Job Description textarea
J_SetField(field, text) ==
    /\ J_Mounted
    /\ field \in {"job_url", "job_description"}
    /\ j_formData[field] # text
    /\ j_formData' = [j_formData EXCEPT ![field] = text]
    /\ UNCHANGED <<j_analyzing, j_result, j_steps, j_error, j_showAuthModal,
                   j_user, j_hasScrolled, j_runs>>
    /\ UNCHANGED <<pvars, hvars, svars, cvars, mvars, avars, wvars>>

\* analyzeJob up to its first await
analyzeJob ==
    IF J_AnalyzeRequest(j_user, j_formData) = NoRequest
    THEN /\ j_error' = "Please provide either a job URL or job description"
         /\ UNCHANGED <<j_formData, j_analyzing, j_result, j_steps,
                        j_showAuthModal, j_user, j_hasScrolled, j_runs>>
         /\ UNCHANGED <<pvars, hvars, svars, cvars, mvars, avars, wvars>>
    ELSE /\ Len(j_runs) < MaxRuns
         /\ Unfired(j_runs) <= MaxStale
         /\ j_analyzing' = TRUE
         /\ j_steps' = <<>>
         /\ j_result' = NoResult
         /\ j_error' = Null
         /\ j_hasScrolled' = FALSE
         /\ j_runs' = Append(j_runs, [ body |-> J_AnalyzeRequest(j_user, j_formData),
                                       resp |-> Pending, fired |-> 0, done |-> FALSE ])
         /\ UNCHANGED <<j_formData, j_showAuthModal, j_user>>
         /\ UNCHANGED <<pvars, hvars, svars, cvars, mvars, avars, wvars>>

\* the Analyze button:
\* disabled={analyzing || (!formData.job_url && !formData.job_description)}
J_ClickAnalyze ==
    /\ J_Mounted
    /\ ~(j_analyzing \/ (j_formData.job_url = "" /\ j_formData.job_description = ""))
    /\ analyzeJob

\* a step timer of run i fires: setAnalysisSteps(prev => [...prev, step])
J_StepTimer(i) ==
    /\ J_Mounted
    /\ i \in 1..Len(j_runs)
    /\ j_runs[i].fired < NumSteps
    /\ j_steps' = Append(j_steps, j_runs[i].fired + 1)
    /\ j_runs' = Settle(j_runs, i, [j_runs[i] EXCEPT !.fired = @ + 1])
    /\ UNCHANGED <<j_formData, j_analyzing, j_result, j_error, j_showAuthModal,
                   j_user, j_hasScrolled>>
    /\ UNCHANGED <<pvars, hvars, svars, cvars, mvars, avars, wvars>>

\* the catch block of analyzeJob
J_Catch(message) ==
    /\ j_error' = message
    /\ j_analyzing' = FALSE
    /\ j_steps' = <<>>
    /\ UNCHANGED j_result

\* the fetch of run i settles: a rejected fetch and a response that is not OK
\* go to the catch block at once; after an OK response the run waits
\* steps.length * 500 + 500 ms
J_FetchSettles(i, resp) ==
    /\ J_Mounted
    /\ i \in 1..Len(j_runs)
    /\ j_runs[i].resp = Pending
    /\ resp \in Responses
    /\ IF resp = Ok
       THEN /\ j_runs' = [j_runs EXCEPT ![i].resp = resp]
            /\ UNCHANGED <<j_error, j_analyzing, j_steps, j_result>>
       ELSE /\ J_Catch(IF resp = Failed THEN "Failed to fetch" ELSE "Could not analyze")
            /\ j_runs' = Settle(j_runs, i, [j_runs[i] EXCEPT !.resp = resp, !.done = TRUE])
    /\ UNCHANGED <<j_formData, j_showAuthModal, j_user, j_hasScrolled>>
    /\ UNCHANGED <<pvars, hvars, svars, cvars, mvars, avars, wvars>>

\* the wait of run i is over. Its timer was set after the step timers of the
\* run and for a later time, so all of them have fired. The body of the
\* response is stored (nothing reads it between response.json() and here)
J_Finish(i) ==
    /\ J_Mounted
    /\ i \in 1..Len(j_runs)
    /\ ~j_runs[i].done
    /\ j_runs[i].resp = Ok
    /\ j_runs[i].fired = NumSteps
    /\ \E data \in JobResults(j_runs[i].body) :
          j_result' = J_StoredResult(j_user, data)
    /\ j_analyzing' = FALSE
    /\ j_runs' = RemoveAt(j_runs, i)
    /\ UNCHANGED <<j_formData, j_steps, j_error, j_showAuthModal, j_user,
                   j_hasScrolled>>
    /\ UNCHANGED <<pvars, hvars, svars, cvars, mvars, avars, wvars>>

\* the X button of the error panel
J_DismissError ==
    /\ J_Mounted
    /\ j_error # Null
    /\ j_error' = Null
    /\ UNCHANGED <<j_formData, j_analyzing, j_result, j_steps, j_showAuthModal,
                   j_user, j_hasScrolled, j_runs>>
    /\ UNCHANGED <<pvars, hvars, svars, cvars, mvars, avars, wvars>>

\* the "Sign In / Sign Up" button of the overlay
J_OverlaySignIn ==
    /\ J_Mounted
    /\ J_View(j_user, j_result).overlay
    /\ j_showAuthModal' = TRUE
    /\ UNCHANGED <<j_formData, j_analyzing, j_result, j_steps, j_error, j_user,
                   j_hasScrolled, j_runs>>
    /\ UNCHANGED <<pvars, hvars, svars, cvars, mvars, avars, wvars>>

\* handleScroll, past the trust score section; the listener is attached only
\* while result && !user && !hasScrolledToResults
J_ScrollPastResults ==
    /\ J_Mounted
    /\ ~(j_result = NoResult \/ j_user # Null \/ j_hasScrolled)
    /\ j_showAuthModal' = TRUE
    /\ j_hasScrolled' = TRUE
    /\ UNCHANGED <<j_formData, j_analyzing, j_result, j_steps, j_error, j_user,
                   j_runs>>
    /\ UNCHANGED <<pvars, hvars, svars, cvars, mvars, avars, wvars>>

\* onClose of the AuthModal
J_CloseAuthModal ==
    /\ J_Mounted
    /\ j_showAuthModal
    /\ j_showAuthModal' = FALSE
    /\ UNCHANGED <<j_formData, j_analyzing, j_result, j_steps, j_error, j_user,
                   j_hasScrolled, j_runs>>
    /\ UNCHANGED <<pvars, hvars, svars, cvars, mvars, avars, wvars>>

\* the AuthModal got a token: it stores token and user, then
\* JobAnalyzer.handleAuthSuccess and App.handleAuthSuccess run
J_AuthSuccess(u) ==
    /\ J_Mounted
    /\ j_showAuthModal
    /\ u \in Users
    /\ ls_token' = "token"
    /\ ls_user' = u
    /\ j_user' = u
    /\ j_showAuthModal' = FALSE
    /\ a_user' = u
    /\ UNCHANGED <<j_formData, j_analyzing, j_result, j_steps, j_error,
                   j_hasScrolled, j_runs>>
    /\ UNCHANGED <<pvars, hvars, svars, cvars, mvars, activeService, wvars>>

-----------------------------------------------------------------------------
(* App *)

\* the Logout button of the App header, shown while user is set. The
\* analyzers copy sharedUser into their own user only when it is set, and with
\* no stored token their auth check does nothing: their user is left alone
App_handleLogout ==
    /\ a_user # Null
    /\ ls_token' = Null
    /\ ls_user' = Null
    /\ a_user' = Null
    /\ UNCHANGED activeService
    /\ UNCHANGED <<pvars, hvars, svars, cvars, mvars, wvars, jvars>>

\* a service tab: the other analyzer is unmounted (its state is dropped, its
\* pending callbacks set no state any more) and this one is mounted with
\* useState(sharedUser || null). The auth checks of an unmounted
\* LegitimacyAnalyzer stay in flight; a LegitimacyAnalyzer mounted without
\* sharedUser starts one when token and user are stored
App_setActiveService(service) ==
    /\ service \in {"website", "job"}
    /\ service # activeService
    /\ activeService' = service
    /\ W_Fresh(IF service = "website" THEN a_user ELSE Null)
    /\ J_Fresh(IF service = "job" THEN a_user ELSE Null)
    /\ IF service = "website"
       THEN /\ w_checks' = IF a_user = Null /\ ls_token # Null /\ ls_user # Null
                           THEN 1 ELSE 0
            /\ UNCHANGED w_orphans
       ELSE /\ w_orphans + w_checks <= MaxChecks
            /\ w_orphans' = w_orphans + w_checks
            /\ w_checks' = 0
    /\ UNCHANGED <<a_user, ls_token, ls_user, a_authChecked, a_check>>
    /\ UNCHANGED <<pvars, cvars, svars, mvars>>

\* the GET /auth/user of App's mount effect settles. A response that is not
\* OK removes the stored items and throws into the catch; a rejected fetch
\* goes to the catch directly. The analyzers run their sharedUser effect when
\* the App's user changes
App_CheckSettles(resp) ==
    /\ a_check = Pending
    /\ resp \in Responses
    /\ a_check' = resp
    /\ a_authChecked' = TRUE
    /\ IF resp = Ok
       THEN /\ \E u \in Users :
                  /\ a_user' = u
                  /\ w_user' = IF W_Mounted THEN u ELSE w_user
                  /\ j_user' = IF J_Mounted THEN u ELSE j_user
            /\ UNCHANGED <<ls_token, ls_user, w_checks>>
       ELSE /\ a_user' = Null
            /\ ls_token' = IF resp = NotOk THEN Null ELSE ls_token
            /\ ls_user' = IF resp = NotOk THEN Null ELSE ls_user
            /\ IF a_user # Null /\ W_Mounted /\ resp = Failed
                  /\ ls_token # Null /\ ls_user # Null
               THEN /\ w_checks < MaxChecks
                    /\ w_checks' = w_checks + 1
               ELSE UNCHANGED w_checks
            /\ UNCHANGED <<w_user, j_user>>
    /\ UNCHANGED <<w_url, w_analyzing, w_result, w_steps, w_error, w_showAuthModal,
                   w_hasScrolled, w_runs>>
    /\ UNCHANGED <<j_formData, j_analyzing, j_result, j_steps, j_error,
                   j_showAuthModal, j_hasScrolled, j_runs>>
    /\ UNCHANGED <<pvars, cvars, svars, mvars, activeService, w_orphans>>

\* a GET /auth/user of the mounted LegitimacyAnalyzer settles
W_CheckSettles(resp) ==
    /\ W_Mounted
    /\ w_checks > 0
    /\ resp \in Responses
    /\ w_checks' = w_checks - 1
    /\ IF resp = Ok
       THEN /\ \E u \in Users : w_user' = u
            /\ UNCHANGED <<ls_token, ls_user>>
       ELSE /\ w_user' = Null
            /\ ls_token' = IF resp = NotOk THEN Null ELSE ls_token
            /\ ls_user' = IF resp = NotOk THEN Null ELSE ls_user
    /\ UNCHANGED <<w_url, w_analyzing, w_result, w_steps, w_error, w_showAuthModal,
                   w_hasScrolled, w_runs>>
    /\ UNCHANGED <<pvars, cvars, svars, mvars, jvars, activeService, a_user,
                   a_authChecked, a_check, w_orphans>>

\* a GET /auth/user of a LegitimacyAnalyzer that has been unmounted settles:
\* its setUser does nothing, the removal of the stored items still happens
W_OrphanSettles(resp) ==
    /\ w_orphans > 0
    /\ resp \in Responses
    /\ w_orphans' = w_orphans - 1
    /\ ls_token' = IF resp = NotOk THEN Null ELSE ls_token
    /\ ls_user' = IF resp = NotOk THEN Null ELSE ls_user
    /\ UNCHANGED <<pvars, cvars, svars, mvars, wvars, jvars, activeService, a_user,
                   a_authChecked, a_check, w_checks>>

-----------------------------------------------------------------------------
(* CommentsSection, which LegitimacyAnalyzer renders while result is non-null *)

Names == {"Ann"}
Texts == {"Good"}
\* the star buttons and the experience buttons of the form
Stars == {1, 2, 3, 4, 5}
Experiences == {"positive", "neutral", "negative"}

\* GET /api/comments/<domain> requests awaiting their response
MaxLoads == 1
\* POST /api/comments/<id>/helpful requests awaiting their response
MaxMarks == 1

\* a plausible slip: the form reset to no stars
EmptyForm_noStars ==
    [ user_name |-> "", rating |-> 0, experience |-> "positive",
      comment |-> "", was_scammed |-> FALSE ]

\* the initial value of formData, which a successful submit puts back
EmptyForm ==
    [ user_name |-> "", rating |-> 5, experience |-> "positive",
      comment |-> "", was_scammed |-> FALSE ]

\* the initial value of stats
NoStats ==
    [ total_comments |-> 0, average_rating |-> 0, scam_reports |-> 0,
      experience_breakdown |-> [positive |-> 0, neutral |-> 0, negative |-> 0] ]

\* what GET /api/comments/<domain> may answer: no comments, two comments, or
\* the body of an error response, which has none of the fields
CommentLoads ==
    { [ comments |-> <<>>, total_comments |-> 0, average_rating |-> 0,
        scam_reports |-> 0,
        experience_breakdown |-> [positive |-> 0, neutral |-> 0, negative |-> 0] ],
      [ comments |-> << [id |-> 1, user_name |-> "Bob", rating |-> 4,
                         experience |-> "positive", comment |-> "Fine",
                         was_scammed |-> FALSE, helpful_count |-> 0],
                        [id |-> 2, user_name |-> "Cy", rating |-> 2,
                         experience |-> "negative", comment |-> "Lost money",
                         was_scammed |-> TRUE, helpful_count |-> 3] >>,
        total_comments |-> 2, average_rating |-> 3, scam_reports |-> 1,
        experience_breakdown |-> [positive |-> 1, neutral |-> 0, negative |-> 1] ],
      [ detail |-> "Internal Server Error" ] }

\* the ids of the comments above
CommentIds == {1, 2}

\* no POST /api/comments/<id>/helpful in flight
NoMarks == [id \in CommentIds |-> 0]

\* the urls analyzed where the url prop of CommentsSection is followed
MoreUrls == Urls \cup {"https://b.example"}

\* no loadComments call for another url awaiting its response
NoStale == [u \in MoreUrls |-> 0]

\* stats when the body has none of its four fields: each is undefined
UndefinedStats == [undefined |-> TRUE]

\* data.comments || []
LoadedComments(data) ==
    IF "comments" \in DOMAIN data THEN data.comments ELSE <<>>

\* the object loadComments passes to setStats
LoadedStats(data) ==
    IF "total_comments" \in DOMAIN data
    THEN [ total_comments |-> data.total_comments,
           average_rating |-> data.average_rating,
           scam_reports |-> data.scam_reports,
           experience_breakdown |-> data.experience_breakdown ]
    ELSE UndefinedStats

\* rendered, and not torn down by a render that threw: with undefined stats
\* stats.average_rating.toFixed(1) throws, and no error boundary catches it
C_Mounted == W_Mounted /\ w_result # NoResult /\ c_stats # [undefined |-> TRUE]

\* the url prop
C_Url == w_result.url

\* a plausible slip: only the name is required
RequiredMissing_nameOnly(fd) == fd.user_name = ""

\* !formData.user_name || !formData.comment, the test handleSubmit returns
\* early on; the disabled attribute of the Submit Review button repeats it
RequiredMissing(fd) == fd.user_name = "" \/ fd.comment = ""

\* the body of the POST /api/comments that handleSubmit sends, NoRequest
\* when it returns early
C_SubmitRequest(fd, url) ==
    IF RequiredMissing(fd) THEN NoRequest
    ELSE [ user_name |-> fd.user_name, rating |-> fd.rating,
           experience |-> fd.experience, comment |-> fd.comment,
           was_scammed |-> fd.was_scammed, url |-> url ]

\* the Add Review / Cancel button
C_ToggleForm ==
    /\ C_Mounted
    /\ c_showForm' = ~c_showForm
    /\ UNCHANGED <<c_comments, c_stats, c_formData, c_submitting, c_post,
                   c_loads, c_marks>>
    /\ UNCHANGED <<pvars, hvars, svars, avars, wvars, jvars, mvars>>

\* an input of the form, rendered while showForm
C_SetField(field, value) ==
    /\ C_Mounted
    /\ c_showForm
    /\ c_formData' = [c_formData EXCEPT ![field] = value]
    /\ UNCHANGED <<c_comments, c_stats, c_showForm, c_submitting, c_post,
                   c_loads, c_marks>>
    /\ UNCHANGED <<pvars, hvars, svars, avars, wvars, jvars, mvars>>

\* handleSubmit up to its await; the one caller is the Submit Review button,
\* disabled while submitting, so that no earlier call is still waiting
handleSubmit ==
    IF C_SubmitRequest(c_formData, C_Url) = NoRequest
    THEN UNCHANGED vars
    ELSE /\ c_post = NoRequest
         /\ c_submitting' = TRUE
         /\ c_post' = C_SubmitRequest(c_formData, C_Url)
         /\ UNCHANGED <<c_comments, c_stats, c_showForm, c_formData, c_loads,
                        c_marks>>
         /\ UNCHANGED <<pvars, hvars, svars, avars, wvars, jvars, mvars>>

\* the Submit Review button:
\* disabled={submitting || !formData.user_name || !formData.comment}
C_ClickSubmit ==
    /\ C_Mounted
    /\ c_showForm
    /\ ~(c_submitting \/ RequiredMissing(c_formData))
    /\ handleSubmit

\* the POST of handleSubmit settles: on an OK response the form is reset and
\* hidden and loadComments is called, not awaited; finally submitting is false
C_PostSettles(resp) ==
    /\ C_Mounted
    /\ c_post # NoRequest
    /\ resp \in Responses
    /\ IF resp = Ok
       THEN /\ c_loads < MaxLoads
            /\ c_formData' = EmptyForm
            /\ c_showForm' = FALSE
            /\ c_loads' = c_loads + 1
       ELSE UNCHANGED <<c_formData, c_showForm, c_loads>>
    /\ c_submitting' = FALSE
    /\ c_post' = NoRequest
    /\ UNCHANGED <<c_comments, c_stats, c_marks>>
    /\ UNCHANGED <<pvars, hvars, svars, avars, wvars, jvars, mvars>>

\* a plausible slip: comments and stats taken from two responses
C_LoadSettles_apart(resp) ==
    /\ C_Mounted
    /\ c_loads > 0
    /\ resp \in Responses
    /\ c_loads' = c_loads - 1
    /\ IF resp = Failed
       THEN UNCHANGED <<c_comments, c_stats>>
       ELSE \E data \in CommentLoads, other \in CommentLoads :
               /\ c_comments' = LoadedComments(data)
               /\ c_stats' = LoadedStats(other)
    /\ UNCHANGED <<c_showForm, c_formData, c_submitting, c_post, c_marks>>
    /\ UNCHANGED <<pvars, hvars, svars, avars, wvars, jvars, mvars>>

\* the GET of a loadComments call settles: the body of any response replaces
\* comments and stats, a rejected fetch is logged
C_LoadSettles(resp) ==
    /\ C_Mounted
    /\ c_loads > 0
    /\ resp \in Responses
    /\ c_loads' = c_loads - 1
    /\ IF resp = Failed
       THEN UNCHANGED <<c_comments, c_stats>>
       ELSE \E data \in CommentLoads :
               /\ c_comments' = LoadedComments(data)
               /\ c_stats' = LoadedStats(data)
    /\ UNCHANGED <<c_showForm, c_formData, c_submitting, c_post, c_marks>>
    /\ UNCHANGED <<pvars, hvars, svars, avars, wvars, jvars, mvars>>

\* the GET of a loadComments call for an earlier value of the url prop
\* settles: loadComments does not look at the url it was called for, and
\* handles the response as any other
C_StaleSettles(u, resp) ==
    /\ C_Mounted
    /\ u \in MoreUrls
    /\ c_stale[u] > 0
    /\ resp \in Responses
    /\ c_stale' = [c_stale EXCEPT ![u] = @ - 1]
    /\ IF resp = Failed
       THEN UNCHANGED <<c_comments, c_stats>>
       ELSE \E data \in CommentLoads :
               /\ c_comments' = LoadedComments(data)
               /\ c_stats' = LoadedStats(data)
    /\ UNCHANGED <<c_showForm, c_formData, c_submitting, c_post, c_marks, c_loads>>
    /\ UNCHANGED <<pvars, hvars, avars, wvars, jvars, mvars>>

\* CommentsSection in a step of LegitimacyAnalyzer that sets result: mounted
\* with its initial state when result was null, and in either case
\* useEffect(..., [url]) calls loadComments when url is new
C_Rendered ==
    IF w_result' = w_result
    THEN UNCHANGED <<cvars, svars>>
    ELSE IF w_result = NoResult
    THEN /\ c_comments' = <<>>
         /\ c_stats' = NoStats
         /\ c_showForm' = FALSE
         /\ c_formData' = EmptyForm
         /\ c_submitting' = FALSE
         /\ c_post' = NoRequest
         /\ c_loads' = 1
         /\ c_marks' = NoMarks
         /\ c_stale' = NoStale
    ELSE IF w_result'.url = w_result.url
    THEN UNCHANGED <<cvars, svars>>
    ELSE /\ c_stale[w_result'.url] < MaxLoads
         /\ c_loads' = c_stale[w_result'.url] + 1
         /\ c_stale' = [c_stale EXCEPT ![w_result.url] = @ + c_loads,
                                       ![w_result'.url] = 0]
         /\ UNCHANGED <<c_comments, c_stats, c_showForm, c_formData,
                        c_submitting, c_post, c_marks>>

\* the POST /api/comments/<id>/helpful requests in flight, all ids together
RECURSIVE MarksInFlight(_, _)
MarksInFlight(marks, ids) ==
    IF ids = {} THEN 0
    ELSE LET id == CHOOSE x \in ids : TRUE
         IN marks[id] + MarksInFlight(marks, ids \ {id})

\* a plausible slip: the request sent twice
markHelpful_twice(commentId) ==
    /\ C_Mounted
    /\ \E i \in 1..Len(c_comments) : c_comments[i].id = commentId
    /\ MarksInFlight(c_marks, CommentIds) < MaxMarks
    /\ c_marks' = [c_marks EXCEPT ![commentId] = @ + 2]
    /\ UNCHANGED <<c_comments, c_stats, c_showForm, c_formData, c_submitting,
                   c_post, c_loads>>
    /\ UNCHANGED <<pvars, hvars, svars, avars, wvars, jvars, mvars>>

\* the Helpful button of a listed comment: markHelpful up to its await. The
\* request names the comment in its path and has no body
markHelpful(commentId) ==
    /\ C_Mounted
    /\ \E i \in 1..Len(c_comments) : c_comments[i].id = commentId
    /\ MarksInFlight(c_marks, CommentIds) < MaxMarks
    /\ c_marks' = [c_marks EXCEPT ![commentId] = @ + 1]
    /\ UNCHANGED <<c_comments, c_stats, c_showForm, c_formData, c_submitting,
                   c_post, c_loads>>
    /\ UNCHANGED <<pvars, hvars, svars, avars, wvars, jvars, mvars>>

\* a POST of markHelpful settles: loadComments is called after any
\* response, a rejected fetch is logged
C_MarkSettles(commentId, resp) ==
    /\ C_Mounted
    /\ commentId \in CommentIds
    /\ c_marks[commentId] > 0
    /\ resp \in Responses
    /\ c_marks' = [c_marks EXCEPT ![commentId] = @ - 1]
    /\ IF resp = Failed
       THEN UNCHANGED c_loads
       ELSE /\ c_loads < MaxLoads
            /\ c_loads' = c_loads + 1
    /\ UNCHANGED <<c_comments, c_stats, c_showForm, c_formData, c_submitting,
                   c_post>>
    /\ UNCHANGED <<pvars, hvars, svars, avars, wvars, jvars, mvars>>

-----------------------------------------------------------------------------
(* AuthModal, as LegitimacyAnalyzer renders it; it keeps its state while
   isOpen is false *)

AuthNames == {"", " ", "Al"}
AuthEmails == {"", " ", "al@a.example"}
AuthPasswords == {"", "12345", "123456"}

\* String.prototype.trim on the texts above
Trim(text) == IF text = " " THEN "" ELSE text

\* the initial value of formData, which the Sign In / Sign Up toggle puts back
EmptyAuthForm == [name |-> "", email |-> "", password |-> ""]

NameError == "Please enter your name"
EmailError == "Please enter your email"
PasswordError == "Password must be at least 6 characters"
NoTokenError == "Authentication completed but no token received. Please try signing in."
AuthFailedError == "Authentication failed. Please try again."
ConnectionError == "Connection error. Please check your internet and try again."

\* what POST /auth/signup and POST /auth/login may end in: a rejected fetch,
\* or a response that is not OK (with or without detail), or an OK response
\* that asks for verification, carries a token, or carries neither
AuthResponses ==
    { [kind |-> "failed"],
      [kind |-> "notok", detail |-> ""],
      [kind |-> "notok", detail |-> "Invalid credentials"],
      [kind |-> "verify"],
      [kind |-> "notoken"] }
    \cup { [kind |-> "token", user |-> u] : u \in Users }

\* isOpen
M_Open == W_Mounted /\ w_showAuthModal

\* the validation of handleSubmit: the message it sets, "" when the form
\* passes
M_ValidationError(isSignUp, fd) ==
    IF isSignUp /\ Trim(fd.name) = "" THEN NameError
    ELSE IF Trim(fd.email) = "" THEN EmailError
    ELSE IF fd.password = "" \/ Len(fd.password) < 6 THEN PasswordError
    ELSE ""

\* an input of the modal; the name input is rendered while isSignUp
M_SetField(field, value) ==
    /\ M_Open
    /\ field = "name" => m_isSignUp
    /\ m_formData[field] # value
    /\ m_formData' = [m_formData EXCEPT ![field] = value]
    /\ UNCHANGED <<m_isSignUp, m_loading, m_error, m_req>>
    /\ UNCHANGED <<pvars, hvars, svars, avars, wvars, jvars, cvars>>

\* the Sign In / Sign Up toggle
M_ToggleSignUp ==
    /\ M_Open
    /\ m_isSignUp' = ~m_isSignUp
    /\ m_error' = ""
    /\ m_formData' = EmptyAuthForm
    /\ UNCHANGED <<m_loading, m_req>>
    /\ UNCHANGED <<pvars, hvars, svars, avars, wvars, jvars, cvars>>

\* handleGoogleAuth: the page is left for the provider
M_GoogleAuth ==
    /\ M_Open
    /\ ~m_loading
    /\ m_loading' = TRUE
    /\ m_error' = ""
    /\ UNCHANGED <<m_isSignUp, m_formData, m_req>>
    /\ UNCHANGED <<pvars, hvars, svars, avars, wvars, jvars, cvars>>

\* a plausible slip: setLoading(true) and setError('') before the validation
M_handleSubmit_loadingFirst ==
    IF M_ValidationError(m_isSignUp, m_formData) # ""
    THEN /\ m_loading' = TRUE
         /\ m_error' = M_ValidationError(m_isSignUp, m_formData)
         /\ UNCHANGED <<m_isSignUp, m_formData, m_req>>
         /\ UNCHANGED <<pvars, hvars, svars, avars, wvars, jvars, cvars>>
    ELSE /\ m_req = NoRequest
         /\ m_loading' = TRUE
         /\ m_error' = ""
         /\ m_req' = [ endpoint |-> IF m_isSignUp THEN "/auth/signup" ELSE "/auth/login",
                       body |-> m_formData ]
         /\ UNCHANGED <<m_isSignUp, m_formData>>
         /\ UNCHANGED <<pvars, hvars, svars, avars, wvars, jvars, cvars>>

\* AuthModal.handleSubmit up to its await
M_handleSubmit ==
    IF M_ValidationError(m_isSignUp, m_formData) # ""
    THEN /\ m_error' = M_ValidationError(m_isSignUp, m_formData)
         /\ UNCHANGED <<m_isSignUp, m_formData, m_loading, m_req>>
         /\ UNCHANGED <<pvars, hvars, svars, avars, wvars, jvars, cvars>>
    ELSE /\ m_req = NoRequest
         /\ m_loading' = TRUE
         /\ m_error' = ""
         /\ m_req' = [ endpoint |-> IF m_isSignUp THEN "/auth/signup" ELSE "/auth/login",
                       body |-> m_formData ]
         /\ UNCHANGED <<m_isSignUp, m_formData>>
         /\ UNCHANGED <<pvars, hvars, svars, avars, wvars, jvars, cvars>>

\* the Sign In / Create Account button: disabled={loading}
M_ClickSubmit ==
    /\ M_Open
    /\ ~m_loading
    /\ M_handleSubmit

\* a plausible slip: onClose called after every response
M_Settles_closeAlways(resp) ==
    /\ W_Mounted
    /\ m_req # NoRequest
    /\ resp \in AuthResponses
    /\ m_loading' = FALSE
    /\ m_req' = NoRequest
    /\ IF resp.kind = "token"
       THEN /\ ls_token' = "token"
            /\ ls_user' = resp.user
            /\ w_user' = resp.user
            /\ w_showAuthModal' = FALSE
            /\ a_user' = resp.user
            /\ UNCHANGED <<m_isSignUp, m_formData, m_error>>
       ELSE /\ UNCHANGED <<ls_token, ls_user, w_user, a_user>>
            /\ w_showAuthModal' = FALSE
            /\ IF resp.kind = "verify"
               THEN /\ m_isSignUp' = FALSE
                    /\ m_formData' = [ name |-> "", email |-> m_req.body.email,
                                       password |-> "" ]
                    /\ UNCHANGED m_error
               ELSE /\ m_error' =
                          IF resp.kind = "failed" THEN ConnectionError
                          ELSE IF resp.kind = "notoken" THEN NoTokenError
                          ELSE IF resp.detail # "" THEN resp.detail
                          ELSE AuthFailedError
                    /\ UNCHANGED <<m_isSignUp, m_formData>>
    /\ UNCHANGED <<w_url, w_analyzing, w_result, w_steps, w_error,
                   w_hasScrolled, w_runs>>
    /\ UNCHANGED <<pvars, hvars, svars, activeService, jvars, cvars>>

\* the POST of handleSubmit settles. With a token: localStorage is written,
\* then LegitimacyAnalyzer.handleAuthSuccess, App.handleAuthSuccess and
\* onClose run. finally: loading is false
M_Settles(resp) ==
    /\ W_Mounted
    /\ m_req # NoRequest
    /\ resp \in AuthResponses
    /\ m_loading' = FALSE
    /\ m_req' = NoRequest
    /\ IF resp.kind = "token"
       THEN /\ ls_token' = "token"
            /\ ls_user' = resp.user
            /\ w_user' = resp.user
            /\ w_showAuthModal' = FALSE
            /\ a_user' = resp.user
            /\ UNCHANGED <<m_isSignUp, m_formData, m_error>>
       ELSE /\ UNCHANGED <<ls_token, ls_user, w_user, w_showAuthModal, a_user>>
            /\ IF resp.kind = "verify"
               THEN /\ m_isSignUp' = FALSE
                    /\ m_formData' = [ name |-> "", email |-> m_req.body.email,
                                       password |-> "" ]
                    /\ UNCHANGED m_error
               ELSE /\ m_error' =
                          IF resp.kind = "failed" THEN ConnectionError
                          ELSE IF resp.kind = "notoken" THEN NoTokenError
                          ELSE IF resp.detail # "" THEN resp.detail
                          ELSE AuthFailedError
                    /\ UNCHANGED <<m_isSignUp, m_formData>>
    /\ UNCHANGED <<w_url, w_analyzing, w_result, w_steps, w_error,
                   w_hasScrolled, w_runs>>
    /\ UNCHANGED <<pvars, hvars, svars, activeService, jvars, cvars>>

-----------------------------------------------------------------------------
(* The application: first visit, nothing in localStorage *)

InitClassified ==
    /\ p_score = 0
    /\ p_score2 = 0
    /\ p_scam = CRITICAL
    /\ p_out = [ web    |-> getScoreColor(0),
                 web2   |-> getScoreColor(0),
                 job    |-> Job_getScoreColor(0),
                 job2   |-> Job_getScoreColor(0),
                 threat |-> ThreatStatus(CRITICAL, 0) ]

\* a browser with nothing stored: the mount effects find no token
InitApp ==
    /\ activeService = "website"
    /\ a_user = Null
    /\ ls_token = Null
    /\ ls_user = Null
    /\ a_authChecked = TRUE
    /\ a_check = NoCheck
    /\ w_checks = 0
    /\ w_orphans = 0

InitWeb ==
    /\ w_url = ""
    /\ w_analyzing = FALSE
    /\ w_result = NoResult
    /\ w_steps = <<>>
    /\ w_error = Null
    /\ w_showAuthModal = FALSE
    /\ w_user = Null
    /\ w_hasScrolled = FALSE
    /\ w_runs = <<>>

InitJob ==
    /\ j_formData = [job_url |-> "", job_description |-> ""]
    /\ j_analyzing = FALSE
    /\ j_result = NoResult
    /\ j_steps = <<>>
    /\ j_error = Null
    /\ j_showAuthModal = FALSE
    /\ j_user = Null
    /\ j_hasScrolled = FALSE
    /\ j_runs = <<>>

\* CommentsSection is not rendered
InitNoComments ==
    /\ c_comments = <<>>
    /\ c_stats = NoStats
    /\ c_showForm = FALSE
    /\ c_formData = EmptyForm
    /\ c_submitting = FALSE
    /\ c_post = NoRequest
    /\ c_loads = 0
    /\ c_marks = NoMarks
    /\ c_stale = NoStale

\* the AuthModal after its first render
InitModal ==
    /\ m_isSignUp = FALSE
    /\ m_formData = EmptyAuthForm
    /\ m_loading = FALSE
    /\ m_error = ""
    /\ m_req = NoRequest

Init ==
    InitClassified /\ InitApp /\ InitWeb /\ InitJob /\ InitNoComments /\ InitModal

NextWeb ==
    \/ \E u \in Urls \cup {""} : W_SetUrl(u)
    \/ W_ClickAnalyze
    \/ W_PressEnter
    \/ \E i \in 1..MaxRuns : W_StepTimer(i)
    \/ \E i \in 1..MaxRuns : \E resp \in Responses : W_FetchSettles(i, resp)
    \/ \E i \in 1..MaxRuns : W_Finish(i)
    \/ W_DismissError
    \/ W_OverlaySignIn
    \/ W_ScrollPastResults
    \/ W_CloseAuthModal
    \/ \E u \in Users : W_AuthSuccess(u)
    \/ W_handleLogout

NextJob ==
    \/ \E text \in JobTexts \cup {""} : J_SetField("job_url", text)
    \/ \E text \in JobDescriptions \cup {""} : J_SetField("job_description", text)
    \/ J_ClickAnalyze
    \/ \E i \in 1..MaxRuns : J_StepTimer(i)
    \/ \E i \in 1..MaxRuns : \E resp \in Responses : J_FetchSettles(i, resp)
    \/ \E i \in 1..MaxRuns : J_Finish(i)
    \/ J_DismissError
    \/ J_OverlaySignIn
    \/ J_ScrollPastResults
    \/ J_CloseAuthModal
    \/ \E u \in Users : J_AuthSuccess(u)

NextApp ==
    \/ App_handleLogout
    \/ \E service \in {"website", "job"} : App_setActiveService(service)

Next == NextWeb \/ NextJob \/ NextApp

Spec == Init /\ [][Next]_vars

-----------------------------------------------------------------------------
(* The page loaded in a browser that may hold the token and user of an earlier
   session: App and LegitimacyAnalyzer have mounted and their effects have run *)

InitMount ==
    /\ InitClassified /\ InitWeb /\ InitJob /\ InitNoComments /\ InitModal
    /\ activeService = "website"
    /\ a_user = Null
    /\ ls_token \in {Null, "token"}
    /\ ls_user \in IF ls_token = Null THEN {Null} ELSE Users
    /\ a_authChecked = (ls_token = Null)
    /\ a_check = IF ls_token = Null THEN NoCheck ELSE Pending
    /\ w_checks = IF ls_token = Null THEN 0 ELSE 1
    /\ w_orphans = 0

NextMount ==
    \/ Next
    \/ \E resp \in Responses : App_CheckSettles(resp)
    \/ \E resp \in Responses : W_CheckSettles(resp)
    \/ \E resp \in Responses : W_OrphanSettles(resp)

SpecMount == InitMount /\ [][NextMount]_vars

-----------------------------------------------------------------------------
(* LegitimacyAnalyzer on its own, a viewer who never signs in and stays on the
   tab: calls of analyzeWebsite that overlap *)

NextRuns ==
    \/ \E u \in Urls \cup {""} : W_SetUrl(u)
    \/ W_ClickAnalyzeCapped(MaxOverlap)
    \/ W_PressEnterCapped(MaxOverlap)
    \/ \E i \in 1..MaxOverlap : W_StepTimer(i)
    \/ \E i \in 1..MaxOverlap : \E resp \in Responses : W_FetchSettles(i, resp)
    \/ \E i \in 1..MaxOverlap : W_Finish(i)
    \/ W_DismissError

SpecRuns == Init /\ [][NextRuns]_vars

-----------------------------------------------------------------------------
(* LegitimacyAnalyzer with the CommentsSection it renders under its result,
   for a viewer who never signs in and leaves the review form alone. A render
   that throws (stats undefined) ends everything *)

W_FinishRendered(i) == W_FinishAnd(i, C_Rendered)

NextUrl ==
    \/ \E u \in MoreUrls \cup {""} : c_stats # UndefinedStats /\ W_SetUrl(u)
    \/ c_stats # UndefinedStats /\ W_ClickAnalyzeCapped(MaxOverlap)
    \/ c_stats # UndefinedStats /\ W_PressEnterCapped(MaxOverlap)
    \/ \E i \in 1..MaxOverlap : c_stats # UndefinedStats /\ W_StepTimer(i)
    \/ \E i \in 1..MaxOverlap : \E resp \in Responses :
          c_stats # UndefinedStats /\ W_FetchSettles(i, resp)
    \/ \E i \in 1..MaxOverlap : c_stats # UndefinedStats /\ W_FinishRendered(i)
    \/ \E resp \in Responses : C_LoadSettles(resp)
    \/ \E u \in MoreUrls : \E resp \in Responses : C_StaleSettles(u, resp)

SpecUrl == Init /\ [][NextUrl]_vars

-----------------------------------------------------------------------------
(* CommentsSection under a result of LegitimacyAnalyzer that stays: the
   response the README documents, shown to a viewer who is not signed in *)

ShownResult ==
    [ url |-> "https://a.example", trustScore |-> 72, verdict |-> "Caution",
      scamProbability |-> "Medium (38%)", findings |-> <<>>, redFlags |-> <<>>,
      aiAnalysis |-> "" ]

InitWebShown ==
    /\ w_url = ShownResult.url
    /\ w_analyzing = FALSE
    /\ w_result = ShownResult
    /\ w_steps = <<1, 2, 3, 4, 5, 6, 7, 8>>
    /\ w_error = Null
    /\ w_showAuthModal = FALSE
    /\ w_user = Null
    /\ w_hasScrolled = FALSE
    /\ w_runs = <<>>

\* the component after its first render and its effect: loadComments called
InitComments ==
    /\ InitClassified /\ InitApp /\ InitWebShown /\ InitJob /\ InitModal
    /\ c_comments = <<>>
    /\ c_stats = NoStats
    /\ c_showForm = FALSE
    /\ c_formData = EmptyForm
    /\ c_submitting = FALSE
    /\ c_post = NoRequest
    /\ c_loads = 1
    /\ c_marks = NoMarks
    /\ c_stale = NoStale

NextComments ==
    \/ C_ToggleForm
    \/ \E n \in Names \cup {""} : C_SetField("user_name", n)
    \/ \E star \in Stars : C_SetField("rating", star)
    \/ \E exp \in Experiences : C_SetField("experience", exp)
    \/ \E t \in Texts \cup {""} : C_SetField("comment", t)
    \/ \E b \in BOOLEAN : C_SetField("was_scammed", b)
    \/ C_ClickSubmit
    \/ \E resp \in Responses : C_PostSettles(resp)
    \/ \E resp \in Responses : C_LoadSettles(resp)
    \/ \E id \in CommentIds : markHelpful(id)
    \/ \E id \in CommentIds : \E resp \in Responses : C_MarkSettles(id, resp)

SpecComments == InitComments /\ [][NextComments]_vars

-----------------------------------------------------------------------------
(* The AuthModal of LegitimacyAnalyzer over a result that is shown to a viewer
   who is not signed in and has cleared the URL input since *)

InitAuth ==
    /\ InitClassified /\ InitApp /\ InitJob /\ InitModal
    /\ w_url = ""
    /\ w_analyzing = FALSE
    /\ w_result = ShownResult
    /\ w_steps = <<1, 2, 3, 4, 5, 6, 7, 8>>
    /\ w_error = Null
    /\ w_showAuthModal = FALSE
    /\ w_user = Null
    /\ w_hasScrolled = FALSE
    /\ w_runs = <<>>
    /\ c_comments = <<>>
    /\ c_stats = NoStats
    /\ c_showForm = FALSE
    /\ c_formData = EmptyForm
    /\ c_submitting = FALSE
    /\ c_post = NoRequest
    /\ c_loads = 1
    /\ c_marks = NoMarks
    /\ c_stale = NoStale

NextAuth ==
    \/ W_OverlaySignIn
    \/ W_ScrollPastResults
    \/ W_CloseAuthModal
    \/ W_PressEnter
    \/ W_handleLogout
    \/ \E n \in AuthNames : M_SetField("name", n)
    \/ \E e \in AuthEmails : M_SetField("email", e)
    \/ \E pw \in AuthPasswords : M_SetField("password", pw)
    \/ M_ToggleSignUp
    \/ M_GoogleAuth
    \/ M_ClickSubmit
    \/ \E resp \in AuthResponses : M_Settles(resp)

SpecAuth == InitAuth /\ [][NextAuth]_vars

-----------------------------------------------------------------------------
(* The classification helpers applied to every score of the scale *)

InitClassify ==
    /\ p_score \in 0..MaxScore
    /\ p_score2 \in 0..MaxScore
    /\ p_scam \in ScamValues
    /\ p_out = NoOut
    /\ InitApp /\ InitWeb /\ InitJob /\ InitNoComments /\ InitModal

Classify ==
    /\ p_out = NoOut
    /\ p_out' = [ web    |-> getScoreColor(p_score),
                  web2   |-> getScoreColor(p_score2),
                  job    |-> Job_getScoreColor(p_score),
                  job2   |-> Job_getScoreColor(p_score2),
                  threat |-> ThreatStatus(p_scam, p_score) ]
    /\ UNCHANGED <<p_score, p_score2, p_scam>>
    /\ UNCHANGED <<hvars, avars, wvars, jvars, cvars, svars, mvars>>

SpecScore == InitClassify /\ [][Classify]_vars

-----------------------------------------------------------------------------
(* Claims *)

BandRank(band) ==
    IF band = ScoreGreen THEN 2 ELSE IF band = ScoreYellow THEN 1 ELSE 0

ExactBands(band, score) ==
    /\ (band = ScoreGreen) <=> (score >= 70)
    /\ (band = ScoreYellow) <=> (score >= 40 /\ score < 70)
    /\ (band = ScoreRed) <=> (score < 40)

\* C5: for every integer score in [0,100] getScoreColor (of both analyzers)
\* gives the best band exactly when score >= 70, the middle band exactly when
\* 40 <= score < 70 and the worst band exactly when score < 40; and for
\* a <= b the band of a is never more legitimate than the band of b.
C5_ScoreBands ==
    p_out # NoOut =>
        /\ ExactBands(p_out.web, p_score)
        /\ ExactBands(p_out.job, p_score)
        /\ ExactBands(p_out.web2, p_score2)
        /\ ExactBands(p_out.job2, p_score2)
        /\ p_score <= p_score2 =>
              /\ BandRank(p_out.web) <= BandRank(p_out.web2)
              /\ BandRank(p_out.job) <= BandRank(p_out.job2)

C5_Witness ==
    /\ p_out # NoOut
    /\ p_score = 69 /\ p_score2 = 70
    /\ p_out.web = ScoreYellow /\ p_out.web2 = ScoreGreen

\* C7: in the website Threat Status the critical marker is tested before the
\* score thresholds: with scamProbability "CRITICAL - 100%" the status is
\* DANGER for every trustScore in [0,100], and the 70/40 thresholds decide
\* the status only when the marker is absent.
C7_ThreatPrecedence ==
    p_out # NoOut =>
        /\ p_scam = CRITICAL => p_out.threat = "DANGER"
        /\ p_scam # CRITICAL =>
              /\ (p_out.threat = "Clean") <=> (p_score >= 70)
              /\ (p_out.threat = "Caution") <=> (p_score >= 40 /\ p_score < 70)
              /\ (p_out.threat = "High Risk") <=> (p_score < 40)

C7_Witness ==
    /\ p_out # NoOut
    /\ p_scam = CRITICAL /\ p_score = MaxScore
    /\ p_out.threat = "DANGER"

-----------------------------------------------------------------------------
(* Claims about the analyzers *)

AnyUser == Users \cup {Null}
GatedFields == {"findings", "redFlags", "aiAnalysis"}

W_Shown == W_View(w_user, w_result)
J_Shown == J_View(j_user, j_result)

\* C1: whenever a result is present and user is null, the findings, the red
\* flags and the AI commentary of the result are not part of what
\* LegitimacyAnalyzer and JobAnalyzer render.
C1_DetailsWithheld ==
    /\ (w_result # NoResult /\ w_user = Null) =>
           (W_Shown.open \cup W_Shown.detail) \cap GatedFields = {}
    /\ (j_result # NoResult /\ j_user = Null) =>
           (J_Shown.open \cup J_Shown.detail) \cap GatedFields = {}

\* C2 as claimed: whenever a result is present, its trust score, its verdict
\* and its target identifier are shown, signed in or not.
C2_ScoreVerdictTargetShown ==
    /\ w_result # NoResult => {"trustScore", "verdict", "url"} \subseteq W_Shown.open
    /\ j_result # NoResult => {"trustScore", "verdict", "jobUrl"} \subseteq J_Shown.open

\* C2: whenever a result is present, its trust score and its verdict are shown
\* outside the block the sign-in overlay covers, with the values of the
\* result, whether user is null or not; LegitimacyAnalyzer shows result.url
\* there too, JobAnalyzer shows no target identifier anywhere.
C2_ScoreVerdictShown ==
    /\ w_result # NoResult =>
          /\ {"trustScore", "verdict", "url"} \subseteq W_Shown.open
          /\ W_Shown.trustScore = w_result.trustScore
          /\ W_Shown.verdict = w_result.verdict
          /\ W_Shown.url = w_result.url
    /\ j_result # NoResult =>
          /\ {"trustScore", "verdict"} \subseteq J_Shown.open
          /\ J_Shown.trustScore = j_result.trustScore
          /\ J_Shown.verdict = j_result.verdict
          /\ "jobUrl" \notin (J_Shown.open \cup J_Shown.detail)

C2_Witness ==
    /\ w_result # NoResult
    /\ w_user = Null
    /\ W_Shown.overlay
    /\ "trustScore" \in W_Shown.open

\* C4: the request an analysis sends and the result it stores do not depend
\* on the auth state: for the url (form) as it is and for every body the
\* response of a running call may carry, analyzeWebsite and analyzeJob send
\* the same request and keep the same, complete, body for every user, null
\* included.
C4_AuthIndependent ==
    \A u \in AnyUser :
        /\ W_AnalyzeRequest(u, w_url) = W_AnalyzeRequest(w_user, w_url)
        /\ \A i \in 1..Len(w_runs) : \A data \in WebResults(w_runs[i].body.url) :
              /\ W_StoredResult(u, data) = W_StoredResult(w_user, data)
              /\ W_StoredResult(u, data) = data
        /\ J_AnalyzeRequest(u, j_formData) = J_AnalyzeRequest(j_user, j_formData)
        /\ \A i \in 1..Len(j_runs) : \A data \in JobResults(j_runs[i].body) :
              /\ J_StoredResult(u, data) = J_StoredResult(j_user, data)
              /\ J_StoredResult(u, data) = data

C4_Witness ==
    /\ w_user = Null
    /\ Len(w_runs) = 1
    /\ w_runs[1].resp = Ok
    /\ w_runs[1].fired = NumSteps

\* C6: whenever the result shown carries a critical signal (website:
\* scamProbability "CRITICAL - 100%"; job: criticalFlags > 0), the score shown
\* is 0 and the verdict shown is the worst one.
C6_CriticalForcesZero ==
    /\ (w_result # NoResult /\ w_result.scamProbability = CRITICAL) =>
          (W_Shown.trustScore = 0 /\ W_Shown.verdict = "Scam")
    /\ (j_result # NoResult /\ j_result.criticalFlags > 0) =>
          (J_Shown.trustScore = 0 /\ J_Shown.verdict = "Likely Scam")

\* C8 as claimed: whenever a result is present, the verdict badge has the
\* band of the score under the 70/40 thresholds.
C8_VerdictMatchesScore ==
    /\ w_result # NoResult =>
          /\ (W_Shown.verdictColor = VerdictGreen) <=> (w_result.trustScore >= 70)
          /\ (W_Shown.verdictColor = VerdictYellow) <=>
                 (w_result.trustScore >= 40 /\ w_result.trustScore < 70)
          /\ (W_Shown.verdictColor = VerdictRed) <=> (w_result.trustScore < 40)
    /\ j_result # NoResult =>
          /\ (J_Shown.verdictColor = VerdictGreen) <=> (j_result.trustScore >= 70)
          /\ (J_Shown.verdictColor = VerdictYellow) <=>
                 (j_result.trustScore >= 40 /\ j_result.trustScore < 70)
          /\ (J_Shown.verdictColor = VerdictRed) <=> (j_result.trustScore < 40)

\* C8: whenever a result is present, the score has the band of trustScore
\* under the 70/40 thresholds and the verdict badge has the band of the
\* verdict text alone (Legit / Likely Legitimate: best, Caution / Possibly
\* Suspicious: middle, any other text: worst); the two come from the response
\* independently and need not agree.
C8_BandsBySource ==
    /\ w_result # NoResult =>
          /\ ExactBands(W_Shown.scoreColor, w_result.trustScore)
          /\ (W_Shown.verdictColor = VerdictGreen) <=> (w_result.verdict = "Legit")
          /\ (W_Shown.verdictColor = VerdictYellow) <=> (w_result.verdict = "Caution")
          /\ (W_Shown.verdictColor = VerdictRed) <=>
                 (w_result.verdict \notin {"Legit", "Caution"})
    /\ j_result # NoResult =>
          /\ ExactBands(J_Shown.scoreColor, j_result.trustScore)
          /\ (J_Shown.verdictColor = VerdictGreen) <=>
                 (j_result.verdict = "Likely Legitimate")
          /\ (J_Shown.verdictColor = VerdictYellow) <=>
                 (j_result.verdict = "Possibly Suspicious")
          /\ (J_Shown.verdictColor = VerdictRed) <=>
                 (j_result.verdict \notin {"Likely Legitimate", "Possibly Suspicious"})

\* the response the README documents for POST /api/analyze
C8_Witness ==
    /\ w_result # NoResult
    /\ w_result.trustScore = 72 /\ w_result.verdict = "Caution"
    /\ W_Shown.scoreColor = ScoreGreen
    /\ W_Shown.verdictColor = VerdictYellow

\* C9: whenever result is non-null, result.trustScore is an integer in
\* [0,100]: a response with a score outside the range is never stored.
C9_ScoreInRange ==
    /\ w_result # NoResult => w_result.trustScore \in 0..MaxScore
    /\ j_result # NoResult => j_result.trustScore \in 0..MaxScore

-----------------------------------------------------------------------------
(* Claims about CommentsSection *)

\* C10: a POST /api/comments that CommentsSection has sent never carries an
\* empty user_name or an empty comment, whatever the form edits, form toggles
\* and submit clicks before it.
C10_NoEmptyPost ==
    c_post # NoRequest => (c_post.user_name # "" /\ c_post.comment # "")

\* a request is in flight for the url on show, and the form has been emptied
\* again after the click
C10_Witness ==
    /\ c_post # NoRequest
    /\ c_post.url = C_Url
    /\ c_formData.user_name = ""
    /\ c_formData.comment = ""

\* ratings no star button offers
OtherRatings == {0, 6}

-----------------------------------------------------------------------------
(* Claims about the rejection of invalid input *)

\* C12: a step in which handleSubmit of CommentsSection, analyzeJob,
\* analyzeWebsite or handleSubmit of AuthModal rejects its input sends no
\* request and changes no state but the error message of its component:
\* result, analyzing / submitting / loading, the step list, the forms and the
\* requests in flight keep their values.
C12_RejectionChangesNothing ==
    [][ /\ (analyzeWebsite /\ W_AnalyzeRequest(w_user, w_url) = NoRequest) =>
               UNCHANGED <<w_url, w_analyzing, w_result, w_steps, w_showAuthModal,
                           w_user, w_hasScrolled, w_runs,
                           pvars, avars, jvars, cvars, mvars>>
        /\ (analyzeJob /\ J_AnalyzeRequest(j_user, j_formData) = NoRequest) =>
               UNCHANGED <<j_formData, j_analyzing, j_result, j_steps,
                           j_showAuthModal, j_user, j_hasScrolled, j_runs,
                           pvars, avars, wvars, cvars, mvars>>
        /\ (handleSubmit /\ C_SubmitRequest(c_formData, C_Url) = NoRequest) =>
               UNCHANGED vars
        /\ (M_handleSubmit /\ M_ValidationError(m_isSignUp, m_formData) # "") =>
               UNCHANGED <<m_isSignUp, m_formData, m_loading, m_req,
                           pvars, avars, wvars, jvars, cvars>>
      ]_vars

\* the modal has turned down a password of five characters: the message is
\* on show, nothing is loading and no request is in flight
C12_Witness ==
    /\ m_error = PasswordError
    /\ m_formData.password = "12345"
    /\ ~m_loading
    /\ m_req = NoRequest
    /\ w_url = "" /\ ~w_analyzing /\ w_runs = <<>>

\* C13: every rejection of invalid input leaves an error on show that names
\* the field that failed. analyzeWebsite returns on an empty url with the
\* state as it found it, so the error on show after its rejection is the one
\* on show before: wherever the Enter key would be turned down, an error
\* would have to be on show already.
C13_RejectionNamesField ==
    (W_Mounted /\ W_AnalyzeRequest(w_user, w_url) = NoRequest) => w_error # Null

-----------------------------------------------------------------------------
(* Claims about the comments and their summary *)

C15_EmptyListZeroSummary ==
    c_comments = <<>> =>
        /\ c_stats # UndefinedStats
        /\ c_stats.average_rating = 0
        /\ c_stats.experience_breakdown = [positive |-> 0, neutral |-> 0, negative |-> 0]

\* C16: in every state the breakdown counts add up to at most total_comments,
\* and total_comments is the length of the list on show.
C16_BreakdownWithinTotal ==
    /\ c_stats # UndefinedStats
    /\ c_stats.experience_breakdown.positive + c_stats.experience_breakdown.neutral
         + c_stats.experience_breakdown.negative <= c_stats.total_comments
    /\ c_stats.total_comments = Len(c_comments)

\* C17: comments and stats change only together, both set from the body of
\* one load response, and the step in which the POST of a submit settles OK,
\* or the POST of a markHelpful settles with any response, starts a new load.
C17_SummaryFromOneLoad ==
    [][ /\ (c_comments' # c_comments \/ c_stats' # c_stats) =>
               /\ c_loads' = c_loads - 1
               /\ \E data \in CommentLoads :
                      /\ c_comments' = LoadedComments(data)
                      /\ c_stats' = LoadedStats(data)
        /\ C_PostSettles(Ok) => c_loads' = c_loads + 1
        /\ \A id \in CommentIds : \A resp \in Responses \ {Failed} :
               C_MarkSettles(id, resp) => c_loads' = c_loads + 1
      ]_vars

\* the list and the summary of the two-comment response are on show, no write
\* is in flight any more and the reload it started is under way
C17_Witness ==
    /\ Len(c_comments) = 2
    /\ c_stats # UndefinedStats
    /\ c_stats.total_comments = 2
    /\ c_post = NoRequest /\ c_marks = NoMarks
    /\ c_loads = 1

-----------------------------------------------------------------------------
(* Claims about the runs of an analysis *)

\* C18: a step in which analyzeWebsite or analyzeJob sets result to the body
\* of a response (a step that changes result to a non-null value, or the
\* continuation of a run whose response is OK) is taken by a run all of whose
\* 8 step timers have fired (and so have appended their steps) and whose
\* response is OK; the run ends with that step.
C18_ResultAfterJoin ==
    [][ /\ (w_result' # NoResult /\ w_result' # w_result) =>
               \E i \in 1..Len(w_runs) :
                   /\ w_runs[i].fired = NumSteps
                   /\ w_runs[i].resp = Ok
                   /\ w_runs' = RemoveAt(w_runs, i)
        /\ \A i \in 1..Len(w_runs) :
               (w_runs[i].resp = Ok /\ W_Finish(i)) => w_runs[i].fired = NumSteps
        /\ (j_result' # NoResult /\ j_result' # j_result) =>
               \E i \in 1..Len(j_runs) :
                   /\ j_runs[i].fired = NumSteps
                   /\ j_runs[i].resp = Ok
                   /\ j_runs' = RemoveAt(j_runs, i)
        /\ \A i \in 1..Len(j_runs) :
               (j_runs[i].resp = Ok /\ J_Finish(i)) => j_runs[i].fired = NumSteps
      ]_vars

\* a result is on show together with all 8 steps of the run that set it
C18_Witness ==
    /\ w_result # NoResult
    /\ w_steps = <<1, 2, 3, 4, 5, 6, 7, 8>>
    /\ ~w_analyzing
    /\ w_runs = <<>>

\* What the event loop guarantees of a run: a timer that was set fires, and
\* the continuation of an await whose promise has settled is run. Nothing in
\* analyzeWebsite or analyzeJob bounds the time fetch takes (no AbortController,
\* no timeout raced against it), so no condition is put on the fetch settling
RunFairness ==
    /\ \A i \in 1..MaxRuns : WF_vars(W_StepTimer(i)) /\ WF_vars(W_Finish(i))
    /\ \A i \in 1..MaxRuns : WF_vars(J_StepTimer(i)) /\ WF_vars(J_Finish(i))

SpecLive == Init /\ [][Next]_vars /\ RunFairness

\* C19: from any state with analyzing true, a state with analyzing false is
\* eventually reached, whether or not the backend answers the request.
C19_AnalysisEnds ==
    /\ w_analyzing ~> ~w_analyzing
    /\ j_analyzing ~> ~j_analyzing

-----------------------------------------------------------------------------
(* Claims about the auth state shared by the App and the analyzers *)

\* C21: in every reachable state (effects run within the step that triggers
\* them) the user of the mounted analyzer equals the user of the App; in
\* particular it is null after the App header's handleLogout.
C21_SharedAuth ==
    /\ W_Mounted => w_user = a_user
    /\ J_Mounted => j_user = a_user

-----------------------------------------------------------------------------
(* Claims about concurrent runs, logout and the scroll effect *)

\* C22: in every reachable state analysisSteps is a prefix of the declared
\* step sequence 1..8 (each step at most once, in declared order, at most 8
\* entries), also after a failed analysis has cleared the list.
C22_StepsPrefix ==
    /\ Len(w_steps) <= NumSteps /\ \A k \in 1..Len(w_steps) : w_steps[k] = k
    /\ Len(j_steps) <= NumSteps /\ \A k \in 1..Len(j_steps) : j_steps[k] = k

\* requests of the runs whose fetch has not settled
RECURSIVE PendingRequests(_)
PendingRequests(runs) ==
    IF runs = <<>> THEN 0
    ELSE (IF Head(runs).resp = Pending THEN 1 ELSE 0) + PendingRequests(Tail(runs))

\* C23: LegitimacyAnalyzer has at most one analysis request in flight, and
\* none while analyzing is false, whatever the clicks and Enter key presses.
C23_OneRequestInFlight ==
    /\ PendingRequests(w_runs) <= 1
    /\ ~w_analyzing => PendingRequests(w_runs) = 0

\* C24: in every reachable state of LegitimacyAnalyzer result and error are
\* never both non-null.
C24_ResultXorError ==
    ~(w_result # NoResult /\ w_error # Null)

\* C25: after handleLogout of LegitimacyAnalyzer user and result are null and
\* auth_token and user are absent from localStorage, and result stays null
\* until a new analysis is started: no call of analyzeWebsite that was
\* running when handleLogout ran sets result afterwards.
C25_LogoutClearsResult ==
    [][ /\ (W_Mounted /\ activeService' = activeService /\ w_user # Null /\ w_user' = Null) =>
               /\ w_result' = NoResult
               /\ ls_token' = Null
               /\ ls_user' = Null
        /\ (w_result' # NoResult /\ w_result' # w_result) =>
               \E i \in 1..Len(w_runs) :
                   /\ w_runs' = RemoveAt(w_runs, i)
                   /\ ~w_runs[i].loggedOut
      ]_vars

\* C26: when the GET /auth/user of App's mount effect ends without verifying
\* the stored token (a response that is not OK, or a request that failed),
\* the App user is null, authChecked is true, and auth_token and user have
\* been removed from localStorage.
C26_UnverifiedTokenDropped ==
    [][ (a_check = Pending /\ a_check' \in {NotOk, Failed}) =>
            /\ a_user' = Null
            /\ a_authChecked'
            /\ ls_token' = Null
            /\ ls_user' = Null
      ]_vars

-----------------------------------------------------------------------------
(* Claims about AuthModal.handleSubmit after its request *)

\* C28: when the POST of AuthModal.handleSubmit settles, loading is false
\* afterwards; auth_token and user are written and onAuthSuccess and onClose
\* run only for an OK response with a token that asks for no verification;
\* for every other outcome localStorage, the users of the analyzer and of the
\* App, and the modal being open are unchanged.
C28_TokenOnlyOnSuccess ==
    [][ \A resp \in AuthResponses : M_Settles(resp) =>
            /\ ~m_loading'
            /\ IF resp.kind = "token"
               THEN /\ ls_token' = "token" /\ ls_user' = resp.user
                    /\ w_user' = resp.user /\ a_user' = resp.user
                    /\ ~w_showAuthModal'
               ELSE UNCHANGED <<ls_token, ls_user, w_user, a_user, w_showAuthModal>>
      ]_vars

\* an OK response without token has been handled: the modal is still open
\* with its message, nothing is stored and nobody is signed in
C28_Witness ==
    /\ m_error = NoTokenError
    /\ m_req = NoRequest
    /\ ~m_loading
    /\ w_showAuthModal
    /\ ls_token = Null /\ ls_user = Null
    /\ w_user = Null /\ a_user = Null

-----------------------------------------------------------------------------
(* Claims about the scroll effect *)

\* C29: when an analysis puts a new result on show for a viewer who is not
\* signed in, the scroll listener is armed for it (hasScrolledToResults is
\* false), so that the first scroll past the trust score opens the auth modal;
\* and a scroll that uses up the listener happens only with user null and
\* opens the modal.
C29_ScrollOpensPerResult ==
    [][ /\ (w_result' # NoResult /\ w_result' # w_result /\ w_user' = Null) =>
               ~w_hasScrolled'
        /\ (j_result' # NoResult /\ j_result' # j_result /\ j_user' = Null) =>
               ~j_hasScrolled'
        /\ (~w_hasScrolled /\ w_hasScrolled') => (w_user = Null /\ w_showAuthModal')
        /\ (~j_hasScrolled /\ j_hasScrolled') => (j_user = Null /\ j_showAuthModal')
      ]_vars

-----------------------------------------------------------------------------
(* Claims about the url prop of CommentsSection *)

RECURSIVE StaleLoads(_, _)
StaleLoads(stale, urls) ==
    IF urls = {} THEN 0
    ELSE LET u == CHOOSE x \in urls : TRUE
         IN stale[u] + StaleLoads(stale, urls \ {u})

\* C27: the response of a load for an earlier value of the url prop never
\* ends up as what CommentsSection displays: when such a response is the
\* last of the pending loads to settle, comments and stats stay as they are.
C27_StaleLoadIgnored ==
    [][ (StaleLoads(c_stale', MoreUrls) < StaleLoads(c_stale, MoreUrls)
           /\ C_Mounted /\ w_result' = w_result
           /\ c_loads' = 0 /\ StaleLoads(c_stale', MoreUrls) = 0) =>
            UNCHANGED <<c_comments, c_stats>>
      ]_vars

=============================================================================
